---- MODULE Spec2Model ----
(***************************************************************************)
(* Model of crates/katana/storage/db/src/migration.rs: the database        *)
(* migration engine (migrate_db, migrate_from_v0_to_v1) and the spill      *)
(* buffer (Yeeter, YeeterFile).                                            *)
(*                                                                         *)
(* Encoded form.  A table row is a pair <<key, value>> of integer          *)
(* sequences, the encoded key and the compressed value, as the store       *)
(* keeps bytes:                                                            *)
(*   v0 StorageChangeSet      <<addr>>       <<storage key>> \o block_list *)
(*   v1 StorageChangeSet      <<addr, key>>  sorted distinct block numbers *)
(*   NonceChanges/History     <<block>>      <<addr, nonce>>               *)
(*   StorageChanges/History   <<block>>      <<addr, key, value>>          *)
(*   ContractClassChanges /   <<block>>      <<addr, class hash>>          *)
(*     ClassChangeHistory                                                  *)
(***************************************************************************)
EXTENDS Integers, Sequences, FiniteSets, TLC

VARIABLES
    versionFile,  \* the version marker file beside the store
    db,           \* the committed store: table name -> [dup, rows]
    tx,           \* the write transaction's view of the store (= db when none is open)
    pc,           \* position of the running migrate_db call, "idle" when none runs
    cursor,       \* number of entries the current cursor walk has yielded
    old_entries,  \* HashMap<ContractAddress, Vec<StorageEntryChangeList>> (line 100)
    curKey,       \* the (key, vals) pair the loop of line 115 is at: its key
    curVals,      \* ... and the vals of it not yet put
    ret,          \* what the last migrate_db call returned
    pre,          \* ghost: store and marker when the last call started, and whether
                  \* the call before it was stopped before its commit
    failedAt,     \* ghost: the position at which the last call failed or crashed
    dirty,        \* ghost: the step of the last call has written in its transaction
    cursors,      \* the tables a cursor of the running step is open on
    droppedTables,\* ghost: the tables the running step has dropped in its transaction
    buffer,       \* Yeeter::buffer
    files,        \* Yeeter::files
    tempDir,      \* ids of the temporary files that exist on disk
    created,      \* number of temporary files created so far
    pushed,       \* ghost: every record pushed so far, in push order
    dropped,      \* the Yeeter has been dropped
    yret          \* what the last Yeeter / YeeterFile operation returned

mvars == <<versionFile, db, tx, pc, cursor, old_entries, curKey, curVals, ret, pre,
           failedAt, dirty, cursors, droppedTables>>
yvars == <<buffer, files, tempDir, created, pushed, dropped, yret>>
vars == <<mvars, yvars>>

----------------------------------------------------------------------------
(* Bounds and input domains *)

\* total number of entries the four v0 tables hold initially
MaxEntries == 2
\* number of Yeeter::push calls
MaxPush == 3
\* number of temporary files created
MaxFiles == 2

CURRENT_DB_VERSION == 1

Addresses == {1, 2}
StorageKeys == {1, 2}
Blocks == {1, 2}
\* block lists of old StorageChangeSet values: unsorted and repeated numbers included
BlockLists == {<<1>>, <<2, 1>>, <<2, 2>>}
NonceChangeVals == {<<1, 1>>, <<1, 2>>, <<2, 1>>}
StorageChangeVals == {<<1, 1, 1>>, <<1, 2, 1>>}
ClassChangeVals == {<<1, 1>>, <<1, 2>>}
\* keys and values pushed into the spill buffer
SpillKeys == {1, 258}
SpillValues == {0, 300}

----------------------------------------------------------------------------
(* Ordering of encoded keys and values *)

RECURSIVE LexLess(_, _)
LexLess(s, t) ==
    IF t = <<>> THEN FALSE
    ELSE IF s = <<>> THEN TRUE
    ELSE IF Head(s) # Head(t) THEN Head(s) < Head(t)
    ELSE LexLess(Tail(s), Tail(t))

RowLess(r, q) == LexLess(r[1], q[1]) \/ (r[1] = q[1] /\ LexLess(r[2], q[2]))

RECURSIVE SortRows(_)
SortRows(S) ==
    IF S = {} THEN <<>>
    ELSE LET m == CHOOSE r \in S : \A q \in S \ {r} : RowLess(r, q)
         IN <<m>> \o SortRows(S \ {m})

RECURSIVE SortInts(_)
SortInts(S) ==
    IF S = {} THEN <<>>
    ELSE LET m == CHOOSE x \in S : \A y \in S : x <= y
         IN <<m>> \o SortInts(S \ {m})

Range(s) == {s[i] : i \in DOMAIN s}

----------------------------------------------------------------------------
(* Version marker file: crate::version (get_db_version, remove_db_version_file, *)
(* create_db_version_file).  The file holds the version as decimal text.        *)

NoVersionFile == [exists |-> FALSE, content |-> <<>>]
VersionFile(content) == [exists |-> TRUE, content |-> content]

RECURSIVE FormatVersion(_)
FormatVersion(v) ==
    IF v < 10 THEN <<v>> ELSE FormatVersion(v \div 10) \o <<v % 10>>

RECURSIVE ParseDigits(_, _)
ParseDigits(c, acc) ==
    IF c = <<>> THEN acc ELSE ParseDigits(Tail(c), 10 * acc + Head(c))

\* Ok(version), or Err when the file is absent or does not parse
get_db_version(vf) ==
    IF vf.exists /\ vf.content # <<>> /\ \A i \in DOMAIN vf.content : vf.content[i] \in 0..9
    THEN [ok |-> TRUE, ver |-> ParseDigits(vf.content, 0)]
    ELSE [ok |-> FALSE, ver |-> -1]

create_db_version_file(v) == VersionFile(FormatVersion(v))

\* the marker reads version v
MarkerReads(vf, v) == get_db_version(vf) = [ok |-> TRUE, ver |-> v]

----------------------------------------------------------------------------
(* Tables and transactions: crate::mdbx (DbEnv, Tx, Cursor) *)

Table(dup, rows) == [dup |-> dup, rows |-> rows]

V0Names == {"StorageChangeSet", "NonceChanges", "StorageChanges", "ContractClassChanges"}
HistoryNames == {"NonceChangeHistory", "StorageChangeHistory", "ClassChangeHistory"}
\* tables::v0::StorageChangeSet and tables::StorageChangeSet are one table name:
\* the changelog says the table changed its type, not its name
V1Names == {"StorageChangeSet"} \cup HistoryNames

\* the tables moved verbatim: <<old name, new name>>
Renames == << <<"NonceChanges", "NonceChangeHistory">>,
              <<"StorageChanges", "StorageChangeHistory">>,
              <<"ContractClassChanges", "ClassChangeHistory">> >>

HasTable(t, name) == name \in DOMAIN t

\* Tx::put: overwrites in a normal table, adds a duplicate in a dup-sort table
PutRows(table, key, val) ==
    IF table.dup THEN table.rows \cup {<<key, val>>}
    ELSE {r \in table.rows : r[1] # key} \cup {<<key, val>>}

put(t, name, key, val) ==
    [t EXCEPT ![name] = Table(t[name].dup, PutRows(t[name], key, val))]

drop_table(t, name) == [n \in (DOMAIN t) \ {name} |-> t[n]]

\* create_db(Some(name), flags): creates the table, or opens the one that exists
CreateOk(t, name, dup) == IF HasTable(t, name) THEN t[name].dup = dup ELSE TRUE

create_db(t, name, dup) ==
    IF HasTable(t, name) THEN t
    ELSE [n \in (DOMAIN t) \cup {name} |-> IF n = name THEN Table(dup, {}) ELSE t[n]]

\* open_db_with_schema::<SchemaV0>: materializes the v0 tables that are absent
RECURSIVE Materialize(_, _)
Materialize(t, names) ==
    IF names = {} THEN t
    ELSE LET n == CHOOSE x \in names : TRUE
         IN Materialize(create_db(t, n, TRUE), names \ {n})

open_db_with_schema(t) == Materialize(t, V0Names)

\* Cursor::walk(None): the entries in key order, then value order
walk(t, name) == SortRows(t[name].rows)

\* Cursor::seek_by_key_subkey: the first entry under key whose value is >= subkey,
\* returned when its sub-key is subkey; <<>> stands for None
seek_by_key_subkey(t, name, key, subkey) ==
    LET ge == {r \in t[name].rows : r[1] = key /\ ~LexLess(r[2], subkey)}
    IN IF ge = {} THEN <<>>
       ELSE LET first == CHOOSE r \in ge : \A q \in ge \ {r} : RowLess(r, q)
            IN IF SubSeq(first[2], 1, Len(subkey)) = subkey THEN first[2] ELSE <<>>

\* Tx::get on a normal table: <<>> stands for None
get(t, name, key) ==
    LET hit == {r \in t[name].rows : r[1] = key}
    IN IF hit = {} THEN <<>> ELSE (CHOOSE r \in hit : TRUE)[2]

----------------------------------------------------------------------------
(* Stores the program starts from *)

V0Universe ==
    {<<"StorageChangeSet", <<a>>, <<k>> \o bl>> :
        a \in Addresses, k \in StorageKeys, bl \in BlockLists}
    \cup {<<"NonceChanges", <<b>>, v>> : b \in Blocks, v \in NonceChangeVals}
    \cup {<<"StorageChanges", <<b>>, v>> : b \in Blocks, v \in StorageChangeVals}
    \cup {<<"ContractClassChanges", <<b>>, v>> : b \in Blocks, v \in ClassChangeVals}

RECURSIVE SubsetsUpTo(_, _)
SubsetsUpTo(U, n) ==
    IF n = 0 THEN {{}}
    ELSE LET S == SubsetsUpTo(U, n - 1) IN S \cup {s \cup {x} : s \in S, x \in U}

\* init_db_with_schema::<SchemaV0> followed by the puts of entries es
V0Store(es) ==
    [n \in V0Names |-> Table(TRUE, {<<e[2], e[3]>> : e \in {x \in es : x[1] = n}})]

\* init_db: a fresh store of the current schema
EmptyV1Store ==
    [n \in V1Names |-> Table(n # "StorageChangeSet", {})]

\* version files found beside a store that is not a v0 store: current, newer,
\* multi-digit, empty, not a number, none
OtherVersionFiles ==
    {VersionFile(<<1>>), VersionFile(<<2>>), VersionFile(<<1, 0>>),
     VersionFile(<<>>), VersionFile(<<0, 45>>), NoVersionFile}

----------------------------------------------------------------------------
(* migrate_db and migrate_from_v0_to_v1 *)

NoRet == [kind |-> "none", ver |-> -1, ctx |-> ""]
Ok == [kind |-> "Ok", ver |-> -1, ctx |-> ""]
Err(kind) == [kind |-> kind, ver |-> -1, ctx |-> ""]
UnsupportedVersion(v) == [kind |-> "UnsupportedVersion", ver |-> v, ctx |-> ""]
Crashed == [kind |-> "crashed", ver |-> -1, ctx |-> ""]

NoEntries == [a \in {} |-> <<>>]

\* positions of the three verbatim moves, by their index in Renames
PcCreate == <<"nonce_create", "storage_create", "class_create">>
PcCursor == <<"nonce_cursor", "storage_cursor", "class_cursor">>
PcWalk == <<"nonce_walk", "storage_walk", "class_walk">>
PcDrop == <<"drop_nonce", "drop_storage", "drop_class">>

\* the positions inside the closure of env.update (lines 98-158)
BodyPcs ==
    {"scs_cursor", "scs_walk", "scs_drop", "scs_create", "scs_put"}
    \cup Range(PcCreate) \cup Range(PcCursor) \cup Range(PcWalk) \cup Range(PcDrop)

\* the positions of a call at which the step's transaction has not committed
BeforeCommitPcs == {"open"} \cup BodyPcs \cup {"commit"}

\* a v0 StorageChangeSet entry decodes as (ContractAddress, StorageEntryChangeList)
DecodesAsChangeSet(row) == Len(row[1]) = 1 /\ Len(row[2]) >= 1

\* BlockList::from_iter: an ordered set of block numbers
BlockListFromIter(block_list) == SortInts(Range(block_list))

\* faulty variant: the block_list is stored as it was found
NewChangeSetValRaw(val) == Tail(val)

\* faulty variant: the new key is built without the contract address
NewChangeSetKeyNoAddress(key, val) == <<0, val[1]>>

\* the record put at line 119 for address key and old value val
NewChangeSetKey(key, val) == <<key, val[1]>>
NewChangeSetVal(val) == BlockListFromIter(Tail(val))

\* faulty variant: the error names the current version, not the one found
DispatchNamesCurrent(res) ==
    IF ~res.ok THEN [pc |-> "idle", ret |-> Err("DatabaseVersion")]
    ELSE IF res.ver = 0 THEN [pc |-> "open", ret |-> NoRet]
    ELSE [pc |-> "idle", ret |-> UnsupportedVersion(CURRENT_DB_VERSION)]

\* faulty variant: a version that cannot be read counts as version 0
DispatchMissingAsZero(res) ==
    IF ~res.ok \/ res.ver = 0 THEN [pc |-> "open", ret |-> NoRet]
    ELSE [pc |-> "idle", ret |-> UnsupportedVersion(res.ver)]

\* faulty variant: a version that cannot be read is reported as an unsupported version
DispatchErrAsUnsupported(res) ==
    IF res.ok /\ res.ver = 0 THEN [pc |-> "open", ret |-> NoRet]
    ELSE [pc |-> "idle", ret |-> UnsupportedVersion(res.ver)]

\* faulty variant: a store of the current version is migrated again
DispatchRerunsCurrent(res) ==
    IF ~res.ok THEN [pc |-> "idle", ret |-> Err("DatabaseVersion")]
    ELSE IF res.ver <= CURRENT_DB_VERSION THEN [pc |-> "open", ret |-> NoRet]
    ELSE [pc |-> "idle", ret |-> UnsupportedVersion(res.ver)]

\* lines 48-55: where migrate_db goes with the result of get_db_version
Dispatch(res) ==
    IF ~res.ok THEN [pc |-> "idle", ret |-> Err("DatabaseVersion")]
    ELSE IF res.ver = 0 THEN [pc |-> "open", ret |-> NoRet]
    ELSE [pc |-> "idle", ret |-> UnsupportedVersion(res.ver)]

\* faulty variant: the error of the step is dropped and the finalize step runs
OnStepErrorSwallowed(e) == [pc |-> "remove_version", ret |-> NoRet]

\* line 51: an error of the step (or of opening the store) ends migrate_db
OnStepError(e) == [pc |-> "idle", ret |-> e]

\* faulty variant: the finalize step writes back the version it migrated from
FinalVersionOld == CURRENT_DB_VERSION - 1

\* line 61: the version written by the finalize step
FinalVersion == CURRENT_DB_VERSION

\* faulty variant: the history tables are created as normal tables
HistoryNotDupSort == FALSE

\* lines 124, 132, 141: DatabaseFlags::DUP_SORT
HistoryDupSort == TRUE

\* tx.cursor::<T>() of lines 99, 125, 134, 143: a cursor is open on the table
open_cursor(cs, name) == cs \cup {name}

\* drop(cursor) of line 109
drop_cursor(cs, name) == cs \ {name}

\* faulty variant: the cursors bound in the block outlive it
EndOfBlockKeepsCursors(cs) == cs

\* line 149: the block of lines 98-149 ends, and every cursor bound in it,
\* the shadowed ones included, is released
EndOfBlock(cs) == cs \ V0Names

ResetScratch ==
    /\ cursor' = 0
    /\ old_entries' = NoEntries
    /\ curKey' = 0
    /\ curVals' = <<>>
    /\ cursors' = {}
    /\ droppedTables' = {}

\* migrate_db is called: lines 46-55
Call ==
    /\ pc = "idle"
    /\ LET d == Dispatch(get_db_version(versionFile)) IN
        /\ pc' = d.pc
        /\ ret' = d.ret
    /\ pre' = [db |-> db, versionFile |-> versionFile,
               interrupted |-> (ret = Crashed /\ failedAt \in BeforeCommitPcs)]
    /\ failedAt' = ""
    /\ dirty' = FALSE
    /\ UNCHANGED <<versionFile, db, tx, cursor, old_entries, curKey, curVals, cursors,
                   droppedTables>>
    /\ UNCHANGED yvars

\* the step stops with error e at the current position: env.update does not commit,
\* and the error reaches migrate_db's caller through line 159 and line 51
Abort(e) ==
    /\ pc' = OnStepError(e).pc
    /\ ret' = OnStepError(e).ret
    /\ failedAt' = pc
    /\ tx' = db
    /\ ResetScratch
    /\ UNCHANGED <<versionFile, db, pre, dirty>>
    /\ UNCHANGED yvars

\* faulty variant: every write of the step is committed on its own
GoAutoCommit(next, t) ==
    /\ pc' = next
    /\ tx' = t
    /\ db' = t
    /\ dirty' = (dirty \/ t # tx)
    /\ UNCHANGED <<versionFile, ret, pre, failedAt>>
    /\ UNCHANGED yvars

\* the step goes on to position next with the transaction's view t
Go(next, t) ==
    /\ pc' = next
    /\ tx' = t
    /\ dirty' = (dirty \/ t # tx)
    /\ UNCHANGED <<versionFile, db, ret, pre, failedAt>>
    /\ UNCHANGED yvars

\* faulty variant: the store is opened under the current schema, which creates
\* the tables of that schema that are absent
OpenWithCurrentSchema ==
    /\ pc = "open"
    /\ \/ /\ db' = Materialize(open_db_with_schema(db), HistoryNames)
          /\ tx' = Materialize(open_db_with_schema(db), HistoryNames)
          /\ pc' = "scs_cursor"
          /\ UNCHANGED <<versionFile, ret, pre, failedAt, dirty, cursor, old_entries,
                         curKey, curVals, cursors, droppedTables>>
          /\ UNCHANGED yvars
       \/ Abort(Err("Database"))

\* line 51 and line 97: open the store under SchemaV0 and begin the write transaction
Open ==
    /\ pc = "open"
    /\ \/ /\ db' = open_db_with_schema(db)
          /\ tx' = open_db_with_schema(db)
          /\ pc' = "scs_cursor"
          /\ UNCHANGED <<versionFile, ret, pre, failedAt, dirty, cursor, old_entries,
                         curKey, curVals, cursors, droppedTables>>
          /\ UNCHANGED yvars
       \/ Abort(Err("Database"))

\* line 99
ScsCursor ==
    /\ pc = "scs_cursor"
    /\ \/ /\ Go("scs_walk", tx)
          /\ cursor' = 0
          /\ cursors' = open_cursor(cursors, "StorageChangeSet")
          /\ UNCHANGED <<old_entries, curKey, curVals, droppedTables>>
       \/ Abort(Err("Database"))

\* faulty variant: the walk is left after its first entry
ScsWalkStopsEarly ==
    /\ pc = "scs_walk"
    /\ LET w == walk(tx, "StorageChangeSet") IN
       \/ /\ cursor < Len(w)
          /\ DecodesAsChangeSet(w[cursor + 1])
          /\ LET key == w[cursor + 1][1][1]
                 val == w[cursor + 1][2]
                 had == IF key \in DOMAIN old_entries THEN old_entries[key] ELSE <<>>
             IN old_entries' = [a \in (DOMAIN old_entries) \cup {key} |->
                                    IF a = key THEN Append(had, val) ELSE old_entries[a]]
          /\ cursor' = cursor + 1
          /\ Go("scs_walk", tx)
          /\ UNCHANGED <<curKey, curVals, cursors, droppedTables>>
       \/ /\ cursor < Len(w)
          /\ Abort(Err("Database"))
       \/ /\ (cursor = Len(w) \/ cursor = 1)
          /\ Go("scs_drop", tx)
          /\ cursors' = drop_cursor(cursors, "StorageChangeSet")
          /\ UNCHANGED <<cursor, old_entries, curKey, curVals, droppedTables>>

\* lines 103-109: one item of the walk, or its end
ScsWalk ==
    /\ pc = "scs_walk"
    /\ LET w == walk(tx, "StorageChangeSet") IN
       \/ /\ cursor < Len(w)
          /\ DecodesAsChangeSet(w[cursor + 1])
          /\ LET key == w[cursor + 1][1][1]
                 val == w[cursor + 1][2]
                 had == IF key \in DOMAIN old_entries THEN old_entries[key] ELSE <<>>
             IN old_entries' = [a \in (DOMAIN old_entries) \cup {key} |->
                                    IF a = key THEN Append(had, val) ELSE old_entries[a]]
          /\ cursor' = cursor + 1
          /\ Go("scs_walk", tx)
          /\ UNCHANGED <<curKey, curVals, cursors, droppedTables>>
       \/ /\ cursor < Len(w)
          /\ Abort(Err("Database"))
       \/ /\ cursor = Len(w)
          /\ Go("scs_drop", tx)
          /\ cursors' = drop_cursor(cursors, "StorageChangeSet")
          /\ UNCHANGED <<cursor, old_entries, curKey, curVals, droppedTables>>

\* faulty variant: the old StorageChangeSet is not dropped before the new one
\* is created
ScsDropSkipped ==
    /\ pc = "scs_drop"
    /\ \/ /\ Go("scs_create", tx)
          /\ UNCHANGED <<cursor, old_entries, curKey, curVals, cursors, droppedTables>>
       \/ Abort(Err("Database"))

\* lines 110-112
ScsDrop ==
    /\ pc = "scs_drop"
    /\ \/ /\ Go("scs_create", drop_table(tx, "StorageChangeSet"))
          /\ droppedTables' = droppedTables \cup {"StorageChangeSet"}
          /\ UNCHANGED <<cursor, old_entries, curKey, curVals, cursors>>
       \/ Abort(Err("Database"))

\* line 113
ScsCreate ==
    /\ pc = "scs_create"
    /\ \/ /\ CreateOk(tx, "StorageChangeSet", FALSE)
          /\ Go("scs_put", create_db(tx, "StorageChangeSet", FALSE))
          /\ UNCHANGED <<cursor, old_entries, curKey, curVals, cursors, droppedTables>>
       \/ Abort(Err("Database"))

\* faulty variant: the entry yielded stays in the map
ScsNextKeyKeepsEntry ==
    /\ pc = "scs_put"
    /\ curVals = <<>>
    /\ \/ \E key \in DOMAIN old_entries :
            /\ curKey' = key
            /\ curVals' = old_entries[key]
            /\ old_entries' = old_entries
            /\ Go("scs_put", tx)
            /\ UNCHANGED <<cursor, cursors, droppedTables>>
       \/ /\ DOMAIN old_entries = {}
          /\ Go(PcCreate[1], tx)
          /\ curKey' = 0
          /\ UNCHANGED <<cursor, old_entries, curVals, cursors, droppedTables>>

\* line 115: the map's iterator yields its next (key, vals), in no particular order
ScsNextKey ==
    /\ pc = "scs_put"
    /\ curVals = <<>>
    /\ \/ \E key \in DOMAIN old_entries :
            /\ curKey' = key
            /\ curVals' = old_entries[key]
            /\ old_entries' = [a \in (DOMAIN old_entries) \ {key} |-> old_entries[a]]
            /\ Go("scs_put", tx)
            /\ UNCHANGED <<cursor, cursors, droppedTables>>
       \/ /\ DOMAIN old_entries = {}
          /\ Go(PcCreate[1], tx)
          /\ curKey' = 0
          /\ UNCHANGED <<cursor, old_entries, curVals, cursors, droppedTables>>

\* lines 116-120
ScsPut ==
    /\ pc = "scs_put"
    /\ curVals # <<>>
    /\ \/ /\ Go("scs_put", put(tx, "StorageChangeSet",
                               NewChangeSetKey(curKey, Head(curVals)),
                               NewChangeSetVal(Head(curVals))))
          /\ curVals' = Tail(curVals)
          /\ UNCHANGED <<cursor, old_entries, curKey, cursors, droppedTables>>
       \/ Abort(Err("Database"))

\* lines 124, 132, 141
CopyCreate(i) ==
    /\ pc = PcCreate[i]
    /\ \/ /\ CreateOk(tx, Renames[i][2], HistoryDupSort)
          /\ Go(PcCursor[i], create_db(tx, Renames[i][2], HistoryDupSort))
          /\ UNCHANGED <<cursor, old_entries, curKey, curVals, cursors, droppedTables>>
       \/ Abort(Err("Database"))

\* lines 125, 134, 143
CopyCursor(i) ==
    /\ pc = PcCursor[i]
    /\ \/ /\ Go(PcWalk[i], tx)
          /\ cursor' = 0
          /\ cursors' = open_cursor(cursors, Renames[i][1])
          /\ UNCHANGED <<old_entries, curKey, curVals, droppedTables>>
       \/ Abort(Err("Database"))

\* faulty variant: the value is put without its first field
CopiedRowTruncated(row) == <<row[1], Tail(row[2])>>

\* the entry put by put_unchecked for the entry read from the old table
CopiedRow(row) == row

\* faulty variant: an entry that fails to read is noted and passed over, and the
\* walk goes on
CopyWalkDefersError(i) ==
    /\ pc = PcWalk[i]
    /\ LET w == walk(tx, Renames[i][1]) IN
       \/ /\ cursor < Len(w)
          /\ Go(PcWalk[i], put(tx, Renames[i][2], CopiedRow(w[cursor + 1])[1],
                               CopiedRow(w[cursor + 1])[2]))
          /\ cursor' = cursor + 1
          /\ UNCHANGED <<old_entries, curKey, curVals, cursors, droppedTables>>
       \/ /\ cursor < Len(w)
          /\ pc' = pc
          /\ cursor' = cursor + 1
          /\ ret' = Err("Database")
          /\ failedAt' = pc
          /\ UNCHANGED <<versionFile, db, tx, pre, dirty, old_entries, curKey, curVals,
                         cursors, droppedTables>>
          /\ UNCHANGED yvars
       \/ /\ cursor = Len(w)
          /\ Go(IF i < Len(Renames) THEN PcCreate[i + 1] ELSE PcDrop[1], tx)
          /\ cursors' = IF i < Len(Renames) THEN cursors ELSE EndOfBlock(cursors)
          /\ UNCHANGED <<cursor, old_entries, curKey, curVals, droppedTables>>

\* lines 126-130, 135-139, 144-148: one item of the walk with its put, or its end
CopyWalk(i) ==
    /\ pc = PcWalk[i]
    /\ LET w == walk(tx, Renames[i][1]) IN
       \/ /\ cursor < Len(w)
          /\ Go(PcWalk[i], put(tx, Renames[i][2], CopiedRow(w[cursor + 1])[1],
                               CopiedRow(w[cursor + 1])[2]))
          /\ cursor' = cursor + 1
          /\ UNCHANGED <<old_entries, curKey, curVals, cursors, droppedTables>>
       \/ /\ cursor < Len(w)
          /\ Abort(Err("Database"))
       \/ /\ cursor = Len(w)
          /\ Go(IF i < Len(Renames) THEN PcCreate[i + 1] ELSE PcDrop[1], tx)
          /\ cursors' = IF i < Len(Renames) THEN cursors ELSE EndOfBlock(cursors)
          /\ UNCHANGED <<cursor, old_entries, curKey, curVals, droppedTables>>

\* faulty variant: the last old table is not dropped
DropOldSkipsLast(i) ==
    /\ pc = PcDrop[i]
    /\ \/ /\ Go(IF i < Len(Renames) THEN PcDrop[i + 1] ELSE "commit",
                IF i < Len(Renames) THEN drop_table(tx, Renames[i][1]) ELSE tx)
          /\ droppedTables' = IF i < Len(Renames) THEN droppedTables \cup {Renames[i][1]}
                                                  ELSE droppedTables
          /\ UNCHANGED <<cursor, old_entries, curKey, curVals, cursors>>
       \/ Abort(Err("Database"))

\* lines 153-155
DropOld(i) ==
    /\ pc = PcDrop[i]
    /\ \/ /\ Go(IF i < Len(Renames) THEN PcDrop[i + 1] ELSE "commit",
                drop_table(tx, Renames[i][1]))
          /\ droppedTables' = droppedTables \cup {Renames[i][1]}
          /\ UNCHANGED <<cursor, old_entries, curKey, curVals, cursors>>
       \/ Abort(Err("Database"))

\* lines 158-159: the body returned Ok and env.update commits
Commit ==
    /\ pc = "commit"
    /\ \/ /\ db' = tx
          /\ pc' = "remove_version"
          /\ ResetScratch
          /\ UNCHANGED <<versionFile, tx, ret, pre, failedAt, dirty>>
          /\ UNCHANGED yvars
       \/ Abort(Err("Database"))

\* line 60: its error leaves migrate_db through the ? inside the block
RemoveVersion ==
    /\ pc = "remove_version"
    /\ \/ /\ versionFile' = NoVersionFile
          /\ pc' = "create_version"
          /\ UNCHANGED <<ret, failedAt>>
       \/ /\ pc' = "idle"
          /\ ret' = Err("DatabaseVersion")
          /\ failedAt' = pc
          /\ UNCHANGED versionFile
    /\ UNCHANGED <<db, tx, cursor, old_entries, curKey, curVals, pre, dirty, cursors,
                   droppedTables>>
    /\ UNCHANGED yvars

\* lines 61-65: its error is given the context of line 63
CreateVersion ==
    /\ pc = "create_version"
    /\ pc' = "idle"
    /\ \/ /\ versionFile' = create_db_version_file(FinalVersion)
          /\ ret' = Ok
          /\ UNCHANGED failedAt
       \/ /\ ret' = [kind |-> "Other", ver |-> -1, ctx |-> "Updating database version file"]
          /\ failedAt' = pc
          /\ UNCHANGED versionFile
    /\ UNCHANGED <<db, tx, cursor, old_entries, curKey, curVals, pre, dirty, cursors,
                   droppedTables>>
    /\ UNCHANGED yvars

\* the process stops at any point of a call; an open transaction is lost
Crash ==
    /\ pc # "idle"
    /\ pc' = "idle"
    /\ ret' = Crashed
    /\ failedAt' = pc
    /\ tx' = db
    /\ ResetScratch
    /\ UNCHANGED <<versionFile, db, pre, dirty>>
    /\ UNCHANGED yvars

MInit ==
    /\ \/ \E es \in SubsetsUpTo(V0Universe, MaxEntries) :
            /\ db = V0Store(es)
            /\ versionFile = VersionFile(<<0>>)
       \/ /\ db = EmptyV1Store
          /\ versionFile \in OtherVersionFiles
    /\ tx = db
    /\ pc = "idle"
    /\ cursor = 0
    /\ old_entries = NoEntries
    /\ curKey = 0
    /\ curVals = <<>>
    /\ ret = NoRet
    /\ pre = [db |-> db, versionFile |-> versionFile, interrupted |-> FALSE]
    /\ failedAt = ""
    /\ dirty = FALSE
    /\ cursors = {}
    /\ droppedTables = {}

----------------------------------------------------------------------------
(* Yeeter and YeeterFile *)

\* Encode::encode of a key: two big-endian bytes
encode(k) == <<(k \div 256) % 256, k % 256>>

\* Compress::compress of a value: its big-endian bytes without leading zeros
RECURSIVE compress(_)
compress(v) == IF v = 0 THEN <<>> ELSE compress(v \div 256) \o <<v % 256>>

RECURSIVE BigEndian(_, _)
BigEndian(n, width) ==
    IF width = 0 THEN <<>> ELSE BigEndian(n \div 256, width - 1) \o <<n % 256>>

\* usize::to_be_bytes
to_be_bytes(n) == BigEndian(n, 8)

\* u64::from_be_bytes
RECURSIVE from_be_bytes(_)
from_be_bytes(b) ==
    IF b = <<>> THEN 0 ELSE 256 * from_be_bytes(SubSeq(b, 1, Len(b) - 1)) + b[Len(b)]

\* Write::write_all at the file's position
write_all(f, data) ==
    [f EXCEPT !.bytes = SubSeq(f.bytes, 1, f.pos) \o data
                        \o SubSeq(f.bytes, f.pos + Len(data) + 1, Len(f.bytes)),
              !.pos = f.pos + Len(data)]

\* Read::read_exact of n bytes at the file's position: an error at the end of the file
read_exact(f, n) ==
    IF Len(f.bytes) - f.pos >= n
    THEN [ok |-> TRUE, data |-> SubSeq(f.bytes, f.pos + 1, f.pos + n),
          file |-> [f EXCEPT !.pos = f.pos + n]]
    ELSE [ok |-> FALSE, data |-> <<>>, file |-> [f EXCEPT !.pos = Len(f.bytes)]]

\* YeeterFile::new; recs and taken are ghosts: the records written, in order, and
\* the number of records read_next has returned
YeeterFile_new(id) ==
    [id |-> id, bytes |-> <<>>, pos |-> 0, len |-> 0, recs |-> <<>>, taken |-> 0]

\* YeeterFile::write
YeeterFile_write(f, key, value) ==
    LET f1 == write_all(f, to_be_bytes(Len(key)))
        f2 == write_all(f1, to_be_bytes(Len(value)))
        f3 == write_all(f2, key)
        f4 == write_all(f3, value)
    IN [f4 EXCEPT !.len = f.len + 1, !.recs = Append(f.recs, <<key, value>>)]

\* the buffers of lines 231-234: Vec::with_capacity(n) is an empty vector, and
\* read_exact fills the vector's current length
ReadIntoVec(f, capacity) == read_exact(f, 0)

\* YeeterFile::read_next: [kind, key, value, file]
YeeterFile_read_next(f) ==
    IF f.len = 0 THEN [kind |-> "none", key |-> <<>>, value |-> <<>>, file |-> f]
    ELSE
      LET ks == read_exact(f, 8)
          vs == read_exact(ks.file, 8)
          k == ReadIntoVec(vs.file, from_be_bytes(ks.data))
          v == ReadIntoVec(k.file, from_be_bytes(vs.data))
      IN IF ~ks.ok THEN [kind |-> "err", key |-> <<>>, value |-> <<>>, file |-> ks.file]
         ELSE IF ~vs.ok THEN [kind |-> "err", key |-> <<>>, value |-> <<>>, file |-> vs.file]
         ELSE IF ~k.ok THEN [kind |-> "err", key |-> <<>>, value |-> <<>>, file |-> k.file]
         ELSE IF ~v.ok THEN [kind |-> "err", key |-> <<>>, value |-> <<>>, file |-> v.file]
         ELSE [kind |-> "some", key |-> k.data, value |-> v.data,
               file |-> [v.file EXCEPT !.len = f.len - 1, !.taken = f.taken + 1]]

RECURSIVE WriteAll(_, _)
WriteAll(f, recs) ==
    IF recs = <<>> THEN f
    ELSE WriteAll(YeeterFile_write(f, Head(recs)[1], Head(recs)[2]), Tail(recs))

YRet(op, kind) ==
    [op |-> op, kind |-> kind, file |-> 0, lenBefore |-> 0, key |-> <<>>, value |-> <<>>]

\* faulty variant: the record is put in front of the batch
PushInFront(key, value) ==
    /\ ~dropped
    /\ Len(pushed) < MaxPush
    /\ buffer' = <<(<<encode(key), compress(value)>>)>> \o buffer
    /\ pushed' = Append(pushed, <<encode(key), compress(value)>>)
    /\ yret' = [YRet("push", "ok") EXCEPT !.key = <<key>>, !.value = <<value>>]
    /\ UNCHANGED <<files, tempDir, created, dropped>>
    /\ UNCHANGED mvars

\* Yeeter::push, lines 172-174; yret notes the arguments of the call
Push(key, value) ==
    /\ ~dropped
    /\ Len(pushed) < MaxPush
    /\ buffer' = Append(buffer, <<encode(key), compress(value)>>)
    /\ pushed' = Append(pushed, <<encode(key), compress(value)>>)
    /\ yret' = [YRet("push", "ok") EXCEPT !.key = <<key>>, !.value = <<value>>]
    /\ UNCHANGED <<files, tempDir, created, dropped>>
    /\ UNCHANGED mvars

\* faulty variant: the batch is written from self.buffer and stays in it
FlushKeepsBatch ==
    /\ ~dropped
    /\ created < MaxFiles
    /\ buffer' = buffer
    /\ \/ /\ files' = Append(files, WriteAll(YeeterFile_new(created + 1), buffer))
          /\ tempDir' = tempDir \cup {created + 1}
          /\ created' = created + 1
          /\ yret' = YRet("flush", "ok")
       \/ /\ yret' = YRet("flush", "err")
          /\ UNCHANGED <<files, tempDir, created>>
       \/ /\ buffer # <<>>
          /\ created' = created + 1
          /\ yret' = YRet("flush", "err")
          /\ UNCHANGED <<files, tempDir>>
    /\ UNCHANGED <<pushed, dropped>>
    /\ UNCHANGED mvars

\* Yeeter::flush, lines 176-188: the batch is taken out of self.buffer first; an
\* error of YeeterFile::new or of a write returns with the batch and the file dropped
Flush ==
    /\ ~dropped
    /\ created < MaxFiles
    /\ buffer' = <<>>
    /\ \/ /\ files' = Append(files, WriteAll(YeeterFile_new(created + 1), buffer))
          /\ tempDir' = tempDir \cup {created + 1}
          /\ created' = created + 1
          /\ yret' = YRet("flush", "ok")
       \/ /\ yret' = YRet("flush", "err")
          /\ UNCHANGED <<files, tempDir, created>>
       \/ /\ buffer # <<>>
          /\ created' = created + 1
          /\ yret' = YRet("flush", "err")
          /\ UNCHANGED <<files, tempDir>>
    /\ UNCHANGED <<pushed, dropped>>
    /\ UNCHANGED mvars

\* YeeterFile::read_next on the i-th retained file, lines 218-239
ReadNext(i) ==
    /\ ~dropped
    /\ i \in DOMAIN files
    /\ LET r == YeeterFile_read_next(files[i]) IN
        /\ files' = [files EXCEPT ![i] = r.file]
        /\ yret' = [op |-> "read_next", kind |-> r.kind, file |-> i,
                    lenBefore |-> files[i].len, key |-> r.key, value |-> r.value]
    /\ UNCHANGED <<buffer, tempDir, created, pushed, dropped>>
    /\ UNCHANGED mvars

\* faulty variant: the files are kept on disk when the Yeeter goes out of scope
DropKeepsFiles ==
    /\ ~dropped
    /\ dropped' = TRUE
    /\ tempDir' = tempDir
    /\ files' = <<>>
    /\ buffer' = <<>>
    /\ yret' = YRet("drop", "ok")
    /\ UNCHANGED <<created, pushed>>
    /\ UNCHANGED mvars

\* the Yeeter goes out of scope: each NamedTempFile removes its file
Drop ==
    /\ ~dropped
    /\ dropped' = TRUE
    /\ tempDir' = tempDir \ {files[i].id : i \in DOMAIN files}
    /\ files' = <<>>
    /\ buffer' = <<>>
    /\ yret' = YRet("drop", "ok")
    /\ UNCHANGED <<created, pushed>>
    /\ UNCHANGED mvars

YIdle ==
    /\ buffer = <<>>
    /\ files = <<>>
    /\ tempDir = {}
    /\ created = 0
    /\ pushed = <<>>
    /\ dropped = FALSE
    /\ yret = YRet("none", "ok")

\* the store of the spill buffer's specification: a fresh store, no call running
MIdle ==
    /\ db = EmptyV1Store
    /\ versionFile = VersionFile(FormatVersion(CURRENT_DB_VERSION))
    /\ tx = db
    /\ pc = "idle"
    /\ cursor = 0
    /\ old_entries = NoEntries
    /\ curKey = 0
    /\ curVals = <<>>
    /\ ret = NoRet
    /\ pre = [db |-> db, versionFile |-> versionFile, interrupted |-> FALSE]
    /\ failedAt = ""
    /\ dirty = FALSE
    /\ cursors = {}
    /\ droppedTables = {}

\* the byte strings handed to YeeterFile::write
SpillRecKeys == {encode(k) : k \in SpillKeys}
SpillRecValues == {compress(v) : v \in SpillValues}

\* faulty variant: the remaining-count is raised before the record is written
YeeterFile_write_failing_counts(f, key, value, stage) ==
    LET parts == <<to_be_bytes(Len(key)), to_be_bytes(Len(value)), key, value>>
        f1 == IF stage > 1 THEN write_all(f, parts[1]) ELSE f
        f2 == IF stage > 2 THEN write_all(f1, parts[2]) ELSE f1
        f3 == IF stage > 3 THEN write_all(f2, parts[3]) ELSE f2
    IN [f3 EXCEPT !.len = f.len + 1]

\* YeeterFile::write when its write_all number stage (1..4) fails: the parts
\* before it are in the file, line 213 is not reached
YeeterFile_write_failing(f, key, value, stage) ==
    LET parts == <<to_be_bytes(Len(key)), to_be_bytes(Len(value)), key, value>>
        f1 == IF stage > 1 THEN write_all(f, parts[1]) ELSE f
        f2 == IF stage > 2 THEN write_all(f1, parts[2]) ELSE f1
        f3 == IF stage > 3 THEN write_all(f2, parts[3]) ELSE f2
    IN f3

\* YeeterFile::write on a file of its own, lines 204-216; pushed notes the calls
FileWrite(key, value) ==
    /\ Len(pushed) < MaxPush
    /\ pushed' = Append(pushed, <<key, value>>)
    /\ \/ /\ files' = [files EXCEPT ![1] = YeeterFile_write(files[1], key, value)]
          /\ yret' = [YRet("write", "ok") EXCEPT !.lenBefore = files[1].len]
       \/ \E stage \in 1..4 :
            /\ files' = [files EXCEPT ![1] =
                                YeeterFile_write_failing(files[1], key, value, stage)]
            /\ yret' = [YRet("write", "err") EXCEPT !.lenBefore = files[1].len]
    /\ UNCHANGED <<buffer, tempDir, created, dropped>>
    /\ UNCHANGED mvars

\* one spill file, fresh from YeeterFile::new
FInit ==
    /\ MIdle
    /\ buffer = <<>>
    /\ files = <<YeeterFile_new(1)>>
    /\ tempDir = {1}
    /\ created = 1
    /\ pushed = <<>>
    /\ dropped = FALSE
    /\ yret = YRet("none", "ok")

FNext ==
    \/ \E key \in SpillRecKeys, value \in SpillRecValues : FileWrite(key, value)
    \/ ReadNext(1)

SpecFile == FInit /\ [][FNext]_vars

Init == MInit /\ YIdle

Next ==
    \/ Call
    \/ Open
    \/ ScsCursor
    \/ ScsWalk
    \/ ScsDrop
    \/ ScsCreate
    \/ ScsNextKey
    \/ ScsPut
    \/ \E i \in 1..Len(Renames) : CopyCreate(i)
    \/ \E i \in 1..Len(Renames) : CopyCursor(i)
    \/ \E i \in 1..Len(Renames) : CopyWalk(i)
    \/ \E i \in 1..Len(Renames) : DropOld(i)
    \/ Commit
    \/ RemoveVersion
    \/ CreateVersion
    \/ Crash

Spec == Init /\ [][Next]_vars

\* the statements of a call that is running: every action but Call and Crash
StepNext ==
    \/ Open
    \/ ScsCursor
    \/ ScsWalk
    \/ ScsDrop
    \/ ScsCreate
    \/ ScsNextKey
    \/ ScsPut
    \/ \E i \in 1..Len(Renames) : CopyCreate(i)
    \/ \E i \in 1..Len(Renames) : CopyCursor(i)
    \/ \E i \in 1..Len(Renames) : CopyWalk(i)
    \/ \E i \in 1..Len(Renames) : DropOld(i)
    \/ Commit
    \/ RemoveVersion
    \/ CreateVersion

YInit == MIdle /\ YIdle

YNext ==
    \/ \E key \in SpillKeys, value \in SpillValues : Push(key, value)
    \/ Flush
    \/ \E i \in 1..MaxFiles : ReadNext(i)
    \/ Drop

SpecYeeter == YInit /\ [][YNext]_vars

----------------------------------------------------------------------------
(* Properties of migrate_db *)

\* a call of migrate_db has been made
Called == ret # NoRet \/ pc # "idle"

\* the last call has returned r
Returned(r) == pc = "idle" /\ ret = r

\* a store as a v0 build leaves it: the four v0 tables, all dup-sort
IsV0Store(d) == DOMAIN d = V0Names /\ \A n \in V0Names : d[n].dup

\* the last call ran on a v0 store with marker 0 and returned Ok
Migrated == Returned(Ok) /\ IsV0Store(pre.db)

\* C1: a call on a store whose marker reads v # 0 (the current version 1
\* included) returns UnsupportedVersion(v) with that v and writes nothing: it
\* never leaves "idle" (no store is opened, no transaction begun), and tables
\* and marker file are as they were when it was called.
C1_UnsupportedVersionNoWrite ==
    LET res == get_db_version(pre.versionFile) IN
    (Called /\ res.ok /\ res.ver # 0) =>
        /\ Returned(UnsupportedVersion(res.ver))
        /\ db = pre.db
        /\ tx = db
        /\ versionFile = pre.versionFile

\* C1 witness: the call after a migration of a store with data is refused
C1_Witness ==
    /\ Returned(UnsupportedVersion(CURRENT_DB_VERSION))
    /\ db["NonceChangeHistory"].rows # {}
    /\ db = pre.db

OldChangeSets(a, k) ==
    {r \in pre.db["StorageChangeSet"].rows : r[1] = <<a>> /\ r[2][1] = k}

\* C3 (the claim as stated): after a successful migration the new
\* StorageChangeSet holds an entry at (a, k) exactly when the old table held
\* one for address a and sub-key k, and its block list is the set of all blocks
\* listed by the old entries of (a, k).
C3_BlockSetsPreserved ==
    Migrated =>
        \A a \in Addresses, k \in StorageKeys :
            LET old == OldChangeSets(a, k)
                new == get(db, "StorageChangeSet", <<a, k>>)
            IN /\ (\E r \in db["StorageChangeSet"].rows : r[1] = <<a, k>>) <=> (old # {})
               /\ old # {} => new = SortInts(UNION {Range(Tail(r[2])) : r \in old})

\* C4: after a successful migration each history table holds exactly the
\* (key, value) entries its old table held before: none lost, none changed,
\* none added, and so as many duplicates under each key as before.
C4_HistoryTablesEqualOld ==
    Migrated =>
        \A i \in 1..Len(Renames) :
            /\ HasTable(db, Renames[i][2])
            /\ db[Renames[i][2]].rows = pre.db[Renames[i][1]].rows
            /\ \A b \in Blocks :
                 Cardinality({r \in db[Renames[i][2]].rows : r[1] = <<b>>})
                   = Cardinality({r \in pre.db[Renames[i][1]].rows : r[1] = <<b>>})

\* C4 witness: a migrated store whose old NonceChanges held two entries of one block
C4_Witness ==
    /\ Migrated
    /\ \E b \in Blocks :
         Cardinality({r \in pre.db["NonceChanges"].rows : r[1] = <<b>>}) = 2

\* C5 (the claim as stated): after a successful migration none of the four v0
\* table names opens.
C5_AllOldNamesAbsent ==
    Migrated => \A n \in V0Names : ~HasTable(db, n)

\* C5 (amended): after a successful migration NonceChanges, StorageChanges and
\* ContractClassChanges are absent; the name StorageChangeSet is present: it is
\* the new normal (not dup-sort) table created in place of the dropped one.
C5_RenamedTablesAbsent ==
    Migrated =>
        /\ \A i \in 1..Len(Renames) : ~HasTable(db, Renames[i][1])
        /\ HasTable(db, "StorageChangeSet")
        /\ ~db["StorageChangeSet"].dup

\* C5 witness: a migrated store whose old tables held entries
C5_Witness ==
    /\ Migrated
    /\ pre.db["ContractClassChanges"].rows # {}
    /\ pre.db["StorageChangeSet"].rows # {}

\* C6: when migrate_db returns Ok on a store whose marker read 0, the marker
\* file exists and reads 1, the old version plus one and CURRENT_DB_VERSION.
C6_MarkerReadsNewVersion ==
    (Returned(Ok) /\ MarkerReads(pre.versionFile, 0)) =>
        /\ versionFile.exists
        /\ MarkerReads(versionFile, get_db_version(pre.versionFile).ver + 1)
        /\ MarkerReads(versionFile, CURRENT_DB_VERSION)

\* C6 witness: Ok returned with the marker rewritten
C6_Witness ==
    /\ Returned(Ok)
    /\ MarkerReads(pre.versionFile, 0)
    /\ versionFile # pre.versionFile

\* length of the sub-key at the head of a history table's value: ContractAddress
\* for nonce and class changes, ContractStorageKey for storage changes
SubkeyLen == <<1, 2, 1>>

Subkey(i, val) == SubSeq(val, 1, SubkeyLen[i])

\* the entries of history table i stored under key with sub-key subkey
Hits(i, key, subkey) ==
    {r \in db[Renames[i][2]].rows : r[1] = key /\ Subkey(i, r[2]) = subkey}

\* C8 (the claim as stated): after a successful migration, for every entry
\* (block, change) of the old NonceChanges and ContractClassChanges tables,
\* seek_by_key_subkey(block, address of change) on the history table returns
\* that change.
C8_SeekReturnsEveryChange ==
    Migrated =>
        \A i \in {1, 3} : \A r \in pre.db[Renames[i][1]].rows :
            seek_by_key_subkey(db, Renames[i][2], r[1], Subkey(i, r[2])) = r[2]

\* C8 (amended): on a migrated history table seek_by_key_subkey(key, subkey)
\* returns None when no entry under key has that sub-key, and otherwise the
\* first (smallest) entry under key with that sub-key; so for every entry
\* (block, change) of an old table the seek by (block, sub-key of change)
\* returns a change of that block and sub-key, and returns that very change
\* when the block holds no other change with the same sub-key.
C8_SeekReturnsFirstOfSubkey ==
    Migrated =>
        /\ \A i \in 1..Len(Renames) : \A b \in Blocks :
             \A subkey \in {Subkey(i, r[2]) : r \in pre.db[Renames[i][1]].rows}
                           \cup {Subkey(i, <<2, 2, 2>>)} :
                LET hits == Hits(i, <<b>>, subkey)
                    found == seek_by_key_subkey(db, Renames[i][2], <<b>>, subkey)
                IN IF hits = {} THEN found = <<>>
                   ELSE /\ <<(<<b>>), found>> \in hits
                        /\ \A q \in hits : ~LexLess(q[2], found)
        /\ \A i \in 1..Len(Renames) : \A r \in pre.db[Renames[i][1]].rows :
             LET found == seek_by_key_subkey(db, Renames[i][2], r[1], Subkey(i, r[2]))
                 same == {q \in pre.db[Renames[i][1]].rows :
                             q[1] = r[1] /\ Subkey(i, q[2]) = Subkey(i, r[2])}
             IN /\ found # <<>>
                /\ Subkey(i, found) = Subkey(i, r[2])
                /\ same = {r} => found = r[2]

\* C8 witness: a migrated store where the seek by (block, address) of an old
\* nonce change returns it, and where a block holds two changes of another table
C8_Witness ==
    /\ Migrated
    /\ \E r \in pre.db["NonceChanges"].rows :
         seek_by_key_subkey(db, "NonceChangeHistory", r[1], Subkey(1, r[2])) = r[2]
    /\ pre.db["ContractClassChanges"].rows # {}

\* the tables are those of the v1 schema
IsV1Layout(d) ==
    /\ DOMAIN d = V1Names
    /\ ~d["StorageChangeSet"].dup
    /\ \A n \in HistoryNames : d[n].dup

\* C9: when the finalize step stops between removing the old marker and writing
\* the new one (a crash, or create_db_version_file failing) the store has no
\* marker file and its committed tables are in the v1 layout; a call of
\* migrate_db on a store without marker file fails with the version error
\* without leaving "idle": no store is opened, no transaction begun, the
\* v0->v1 step does not run, tables and marker stay as they were.
C9_InterruptedFinalizeNotVersion0 ==
    /\ (pc = "idle" /\ failedAt = "create_version") =>
          /\ ret.kind \in {"crashed", "Other"}
          /\ ~versionFile.exists
          /\ IsV1Layout(db)
    /\ (Called /\ ~pre.versionFile.exists) =>
          /\ Returned(Err("DatabaseVersion"))
          /\ db = pre.db
          /\ tx = db
          /\ versionFile = pre.versionFile

\* C9 witness: migrate_db has been refused on a store that holds migrated data
\* and no marker file
C9_Witness ==
    /\ Returned(Err("DatabaseVersion"))
    /\ ~pre.versionFile.exists
    /\ IsV1Layout(db)
    /\ db["NonceChangeHistory"].rows # {}

\* C10: a call of migrate_db on a store whose marker file is absent or does not
\* parse returns the version error at once: the store is not opened, and tables
\* and marker file are as they were.
C10_UnreadableMarkerFails ==
    (Called /\ ~get_db_version(pre.versionFile).ok) =>
        /\ Returned(Err("DatabaseVersion"))
        /\ db = pre.db
        /\ tx = db
        /\ versionFile = pre.versionFile

\* C10 witness: a call refused on a marker file that exists and does not parse
C10_Witness ==
    /\ Returned(Err("DatabaseVersion"))
    /\ pre.versionFile.exists
    /\ pre.versionFile.content # <<>>

----------------------------------------------------------------------------
(* Properties of the spill buffer *)

RECURSIVE AllRecs(_)
AllRecs(fs) == IF fs = <<>> THEN <<>> ELSE Head(fs).recs \o AllRecs(Tail(fs))

\* C7 (the claim as stated): once the pushed records have all been flushed, by
\* at least two flushes, each read_next of a retained file returns the file's
\* next record in the order written, as the pair (encoded key, compressed
\* value) that was pushed, and None exactly when no record remains; the files
\* in flush order hold the pushed records in push order.
C7_SpillRoundTrip ==
    (yret.op = "read_next" /\ Len(files) >= 2 /\ buffer = <<>> /\ AllRecs(files) = pushed) =>
        LET f == files[yret.file] IN
        IF yret.lenBefore = 0 THEN yret.kind = "none"
        ELSE /\ yret.kind = "some"
             /\ <<yret.key, yret.value>> = f.recs[Len(f.recs) - yret.lenBefore + 1]
             /\ f.len = yret.lenBefore - 1

----------------------------------------------------------------------------
(* Properties of the marker and of the order of the step *)

\* the new StorageChangeSet holds, for every (address, sub-key) of the old
\* table, the set of all blocks the old entries listed, and nothing else
ChangeSetsComplete ==
    \A a \in Addresses, k \in StorageKeys :
        LET old == OldChangeSets(a, k) IN
        /\ (\E r \in db["StorageChangeSet"].rows : r[1] = <<a, k>>) <=> (old # {})
        /\ old # {} => get(db, "StorageChangeSet", <<a, k>>)
                         = SortInts(UNION {Range(Tail(r[2])) : r \in old})

\* the new StorageChangeSet holds an entry exactly for every (address, sub-key)
\* of the old table, with blocks that old entries of that pair listed
ChangeSetsKeyed ==
    \A a \in Addresses, k \in StorageKeys :
        LET old == OldChangeSets(a, k) IN
        /\ (\E r \in db["StorageChangeSet"].rows : r[1] = <<a, k>>) <=> (old # {})
        /\ old # {} => Range(get(db, "StorageChangeSet", <<a, k>>))
                         \subseteq UNION {Range(Tail(r[2])) : r \in old}

\* the three history tables hold the entries of the old tables
HistoryComplete ==
    \A i \in 1..Len(Renames) : db[Renames[i][2]].rows = pre.db[Renames[i][1]].rows

\* C11 (the claim as stated): in every state, failed steps and crashes
\* included, a marker that reads the current version means a fully migrated
\* store: the tables are the four of the v1 schema, no retired v0 table is
\* left, and, when the last call ran on a v0 store, the new tables hold the
\* complete transformed contents of its tables.
C11_CurrentMarkerMeansFullyMigrated ==
    MarkerReads(versionFile, CURRENT_DB_VERSION) =>
        /\ IsV1Layout(db)
        /\ \A i \in 1..Len(Renames) : ~HasTable(db, Renames[i][1])
        /\ IsV0Store(pre.db) => (HistoryComplete /\ ChangeSetsComplete)

\* the part of C11 that does not depend on the block lists: under a marker that
\* reads the current version no intermediate state of the step is committed
CurrentMarkerMeansV1Layout ==
    MarkerReads(versionFile, CURRENT_DB_VERSION) =>
        /\ IsV1Layout(db)
        /\ \A i \in 1..Len(Renames) : ~HasTable(db, Renames[i][1])
        /\ tx = db
        /\ IsV0Store(pre.db) => (HistoryComplete /\ ChangeSetsKeyed)

\* the puts of rows, in order, into table name
RECURSIVE PutAll(_, _, _)
PutAll(t, name, rows) ==
    IF rows = <<>> THEN t
    ELSE PutAll(put(t, name, Head(rows)[1], Head(rows)[2]), name, Tail(rows))

RECURSIVE MoveAll(_, _)
MoveAll(t, i) ==
    IF i > Len(Renames) THEN t
    ELSE MoveAll(PutAll(create_db(t, Renames[i][2], HistoryDupSort), Renames[i][2],
                        walk(t, Renames[i][1])), i + 1)

RECURSIVE DropAll(_, _)
DropAll(t, i) ==
    IF i > Len(Renames) THEN t ELSE DropAll(drop_table(t, Renames[i][1]), i + 1)

\* the tables an uninterrupted, fault-free run of the step (lines 99-156) leaves
\* from the tables d, the map's keys taken in ascending order
UninterruptedRun(d) ==
    LET w == walk(d, "StorageChangeSet")
        news == [j \in 1..Len(w) |-> <<NewChangeSetKey(w[j][1][1], w[j][2]),
                                       NewChangeSetVal(w[j][2])>>]
        t0 == create_db(drop_table(d, "StorageChangeSet"), "StorageChangeSet", FALSE)
    IN DropAll(MoveAll(PutAll(t0, "StorageChangeSet", news), 1), 1)

\* the last call ran on a version-0 store
OnV0Store == IsV0Store(pre.db) /\ MarkerReads(pre.versionFile, 0)

\* C12: when a call of migrate_db on a version-0 store stops (the process
\* ends) before the transaction has committed, the tables and the marker are
\* exactly as before the call; the call made after the restart finds that same
\* store, is dispatched into the v0->v1 step (it is not refused), and when it
\* returns Ok the tables are those an uninterrupted run leaves from the
\* original store and the marker reads the current version.
C12_InterruptedRunRepeats ==
    /\ (Returned(Crashed) /\ failedAt \in BeforeCommitPcs /\ OnV0Store) =>
          /\ db = pre.db
          /\ tx = db
          /\ versionFile = pre.versionFile
    /\ (pre.interrupted /\ OnV0Store) =>
          /\ (pc = "idle" /\ failedAt = "") => ret = Ok
          /\ Returned(Ok) =>
                /\ db = UninterruptedRun(pre.db)
                /\ versionFile = create_db_version_file(CURRENT_DB_VERSION)
    /\ (Migrated /\ ~pre.interrupted) => db = UninterruptedRun(pre.db)

\* C12 witness: the call made after a run that was stopped before its commit
\* has migrated a store whose old tables held entries
C12_Witness ==
    /\ pre.interrupted
    /\ OnV0Store
    /\ Returned(Ok)
    /\ pre.db["StorageChangeSet"].rows # {}
    /\ db["NonceChangeHistory"].rows # {}

\* C13: the marker file changes only in the finalize step, and the finalize
\* step is entered only by the successful commit of the step's transaction;
\* when opening the store, the transaction body or the commit fails, migrate_db
\* returns the error of that failure, without context, and the marker file is
\* the one the call found, which exists and reads 0.
C13_MarkerChangesOnlyAfterCommit ==
    /\ [][/\ versionFile' # versionFile => pc \in {"remove_version", "create_version"}
          /\ (pc' = "remove_version" /\ pc # "remove_version") =>
                (pc = "commit" /\ db' = tx)
          /\ (pc' = "create_version" /\ pc # "create_version") => pc = "remove_version"
         ]_vars
    /\ [](\A p \in BeforeCommitPcs :
            (pc = "idle" /\ failedAt = p /\ ret.kind # "crashed") =>
                /\ ret = Err("Database")
                /\ versionFile = pre.versionFile
                /\ versionFile.exists
                /\ MarkerReads(versionFile, 0))

\* C13 witness: the commit of a step that had written in its transaction has
\* failed, and the marker still reads 0
C13_Witness ==
    /\ Returned(Err("Database"))
    /\ failedAt = "commit"
    /\ dirty
    /\ MarkerReads(versionFile, 0)

\* the positions of the closure in program order (lines 99-158)
StepOrder ==
    <<"scs_cursor", "scs_walk", "scs_drop", "scs_create", "scs_put",
      PcCreate[1], PcCursor[1], PcWalk[1],
      PcCreate[2], PcCursor[2], PcWalk[2],
      PcCreate[3], PcCursor[3], PcWalk[3],
      PcDrop[1], PcDrop[2], PcDrop[3], "commit">>

Pos(p) == CHOOSE j \in 1..Len(StepOrder) : StepOrder[j] = p

\* the step is running on a version-0 store
InStep == OnV0Store /\ pc \in Range(StepOrder)

\* the old table n is no longer in t; the new table n is in t
OldGone(t, n) ==
    IF HasTable(t, n) THEN n = "StorageChangeSet" /\ ~t[n].dup ELSE TRUE
NewThere(t, n) ==
    IF HasTable(t, n) THEN n = "StorageChangeSet" => ~t[n].dup ELSE FALSE

\* the position of the walk over old table n
WalkPc(n) ==
    IF n = "StorageChangeSet" THEN "scs_walk"
    ELSE PcWalk[CHOOSE i \in 1..Len(Renames) : Renames[i][1] = n]

\* the step is past the walk over old table n; past every put
FullyRead(n) == Pos(pc) > Pos(WalkPc(n))
PutsDone == Pos(pc) > Pos(PcWalk[Len(Renames)])

\* C14 (the claim as stated): within the step the phases run in order: a new
\* table exists only when every old table has been read to its end, a new
\* table holds a record only when every new table exists, and an old table is
\* gone only when every new table exists and every put has been made.
C14_FourPhasesInOrder ==
    InStep =>
        /\ (\E n \in V1Names : NewThere(tx, n)) => \A o \in V0Names : FullyRead(o)
        /\ (\E n \in V1Names : NewThere(tx, n) /\ tx[n].rows # {}) =>
              \A m \in V1Names : NewThere(tx, m)
        /\ (\E o \in V0Names : OldGone(tx, o)) =>
              /\ \A m \in V1Names : NewThere(tx, m)
              /\ PutsDone

\* the first n entries of sequence w, as a set
FirstRows(w, n) == {w[j] : j \in 1..n}

\* C14 (amended): the positions of the step are passed in program order, one
\* after the other, and the transaction's tables follow it: nothing is written
\* until the old StorageChangeSet has been read to its end; then the old
\* StorageChangeSet is dropped (before any new table exists), the new one
\* created and its records put; then, table by table, each history table is
\* created and the entries of its old table are put one by one as the walk
\* reads them; NonceChanges, StorageChanges and ContractClassChanges are
\* dropped only at the end, when all four new tables exist and hold all their
\* records.
C14_StepOrder ==
    /\ [][(pc \in Range(StepOrder) /\ pc' # pc /\ pc' # "idle") =>
             IF pc = "commit" THEN pc' = "remove_version"
             ELSE pc' = StepOrder[Pos(pc) + 1]]_vars
    /\ [](InStep =>
            /\ Pos(pc) <= Pos("scs_drop") => tx = pre.db
            /\ HasTable(tx, "StorageChangeSet") <=> pc # "scs_create"
            /\ pc = "scs_create" => \A n \in V1Names : ~NewThere(tx, n)
            /\ NewThere(tx, "StorageChangeSet") <=> Pos(pc) > Pos("scs_create")
            /\ \A i \in 1..Len(Renames) :
                 /\ HasTable(tx, Renames[i][2]) <=> Pos(pc) > Pos(PcCreate[i])
                 /\ HasTable(tx, Renames[i][1]) <=> Pos(pc) <= Pos(PcDrop[i])
                 /\ pc = PcWalk[i] =>
                      tx[Renames[i][2]].rows
                        = FirstRows(walk(pre.db, Renames[i][1]), cursor)
                 /\ Pos(pc) > Pos(PcWalk[i]) =>
                      tx[Renames[i][2]].rows = pre.db[Renames[i][1]].rows
            /\ PutsDone =>
                 tx["StorageChangeSet"].rows
                   = UninterruptedRun(pre.db)["StorageChangeSet"].rows)

\* C14 witness: the step is about to drop the first of the three old tables
\* with all four new tables created and records in the new StorageChangeSet
\* and in a history table
C14_Witness ==
    /\ InStep
    /\ pc = PcDrop[1]
    /\ \A n \in V1Names : NewThere(tx, n)
    /\ tx["StorageChangeSet"].rows # {}
    /\ tx["ClassChangeHistory"].rows # {}

\* the entries of the old StorageChangeSet held in old_entries
ReadEntries ==
    {<< <<a>>, old_entries[a][j] >> : <<a, j>> \in
        {<<b, i>> \in (DOMAIN old_entries) \X (1..MaxEntries + 1) :
            i <= Len(old_entries[b])}}

\* the history table that takes the entries of old table n
NewOf(n) == Renames[CHOOSE i \in 1..Len(Renames) : Renames[i][1] = n][2]

\* every entry of old table n has been read by the step: it is in old_entries,
\* once, or it has been put into the history table
NothingUnread(n) ==
    IF n = "StorageChangeSet"
    THEN /\ ReadEntries = tx[n].rows
         /\ \A a \in DOMAIN old_entries :
              Len(old_entries[a]) = Cardinality({r \in tx[n].rows : r[1] = <<a>>})
    ELSE /\ HasTable(tx, NewOf(n))
         /\ tx[n].rows \subseteq tx[NewOf(n)].rows

\* C15: a walk starts before the first entry, reads one entry after the other
\* and is left for the next statement only when it has read the table's last
\* entry (a read error leaves the step instead); and whenever a v0 table is
\* dropped from the transaction the step is past the walk over that table and
\* no entry of the table is unread.
C15_DropOnlyAfterFullWalk ==
    [][\A n \in V0Names :
         /\ (pc' = WalkPc(n) /\ pc # WalkPc(n)) => cursor' = 0
         /\ (pc = WalkPc(n) /\ pc' = pc) => cursor' = cursor + 1
         /\ (pc = WalkPc(n) /\ pc' # pc /\ pc' # "idle") =>
               cursor = Len(walk(tx, n))
         /\ (HasTable(tx, n) /\ ~HasTable(tx', n)) =>
               /\ pc \in Range(StepOrder)
               /\ FullyRead(n)
               /\ NothingUnread(n)
               /\ ret = NoRet
      ]_vars

\* C15 witness: the four old tables have been dropped from the transaction of a
\* step whose old StorageChangeSet held two entries
C15_Witness ==
    /\ InStep
    /\ pc = "commit"
    /\ \A n \in V0Names : OldGone(tx, n)
    /\ Cardinality(pre.db["StorageChangeSet"].rows) = 2

\* C16: when a walk over an old table fails at an entry (the walk is not at the
\* table's end), the step ends there: migrate_db returns that error, raised at
\* the walk's position, the transaction is given up with all its writes, the
\* committed tables and the marker are untouched; and from that return until
\* the next call nothing is read, put, created or dropped.
C16_ReadErrorStopsStep ==
    /\ [][\A n \in V0Names :
            (pc = WalkPc(n) /\ ret = NoRet /\ ret' = Err("Database")) =>
                /\ cursor < Len(walk(tx, n))
                /\ pc' = "idle"
                /\ failedAt' = pc
                /\ tx' = db
                /\ db' = db
                /\ versionFile' = versionFile
                /\ old_entries' = NoEntries
                /\ cursor' = 0
         ]_vars
    /\ [][(pc = "idle" /\ ret = Err("Database") /\ failedAt \in {WalkPc(n) : n \in V0Names}) =>
                /\ tx' = tx
                /\ db' = db
                /\ versionFile' = versionFile
                /\ cursor' = cursor
                /\ old_entries' = old_entries
         ]_vars
    /\ [](ret = Err("Database") => pc = "idle")

\* C16 witness: the walk over StorageChanges has failed after the step had
\* written in its transaction, and the committed tables are those found
C16_Witness ==
    /\ Returned(Err("Database"))
    /\ failedAt = WalkPc("StorageChanges")
    /\ dirty
    /\ pre.db["StorageChanges"].rows # {}
    /\ db = pre.db
    /\ tx = db

\* C17 (the claim as stated): an error of the finalize step, from removing the
\* old marker file or from creating the new one, is returned by migrate_db
\* with the context "Updating database version file".
C17_FinalizeErrorsCarryContext ==
    (pc = "idle" /\ failedAt \in {"remove_version", "create_version"}
        /\ ret.kind # "crashed") =>
        ret.ctx = "Updating database version file"

StrictlyIncreasing(s) == \A i \in 1..Len(s) - 1 : s[i] < s[i + 1]

\* C18: every put into the new StorageChangeSet stores, at (address, sub-key of
\* the old entry), a block list that is strictly increasing (so free of
\* duplicates) and whose numbers are exactly the numbers of that old entry's
\* block_list; and every block list held by the new StorageChangeSet of a step
\* on a version-0 store, during the step and after it, is strictly increasing
\* and is the set of numbers of the block_list of an old entry of that address
\* and sub-key.
C18_BlockListsOrderedSets ==
    /\ [][(pc = "scs_put" /\ pc' = "scs_put" /\ curVals # <<>>
             /\ curVals' = Tail(curVals)) =>
            LET old == Head(curVals)
                new == get(tx', "StorageChangeSet", <<curKey, old[1]>>)
            IN /\ StrictlyIncreasing(new)
               /\ Len(new) = Cardinality(Range(new))
               /\ Range(new) = Range(Tail(old))
               /\ <<(<<curKey>>), old>> \in pre.db["StorageChangeSet"].rows
         ]_vars
    /\ []((OnV0Store /\ (Returned(Ok) \/ pc \in Range(StepOrder))) =>
            \A t \in {tx, db} :
                NewThere(t, "StorageChangeSet") =>
                    \A r \in t["StorageChangeSet"].rows :
                        /\ StrictlyIncreasing(r[2])
                        /\ \E o \in OldChangeSets(r[1][1], r[1][2]) :
                             Range(r[2]) = Range(Tail(o[2])))

\* C18 witness: a migrated store holds the block list <<1, 2>> for an old entry
\* whose block_list was <<2, 1>>, and the block list <<2>> for one whose
\* block_list was <<2, 2>>
C18_Witness ==
    /\ Migrated
    /\ \E r \in pre.db["StorageChangeSet"].rows :
         /\ Tail(r[2]) = <<2, 1>>
         /\ get(db, "StorageChangeSet", <<r[1][1], r[2][1]>>) = <<1, 2>>
    /\ \E r \in pre.db["StorageChangeSet"].rows :
         /\ Tail(r[2]) = <<2, 2>>
         /\ get(db, "StorageChangeSet", <<r[1][1], r[2][1]>>) = <<2>>

\* a call of push has just been made: only push adds to the pushed records
PushStep == pushed' # pushed

\* C19: push(key, value) makes the batch one record longer: the new last record
\* is (encode(key), compress(value)), the records before it are those of the
\* batch before the call, in their order; the retained files, with their bytes
\* and remaining-counts, and the temporary files on disk are as before.
C19_PushAppendsOneRecord ==
    [][PushStep =>
        /\ yret'.op = "push"
        /\ Len(buffer') = Len(buffer) + 1
        /\ buffer'[Len(buffer')] = <<encode(yret'.key[1]), compress(yret'.value[1])>>
        /\ \A j \in 1..Len(buffer) : buffer'[j] = buffer[j]
        /\ files' = files
        /\ tempDir' = tempDir
        /\ created' = created
      ]_vars

\* C19 witness: a push onto a batch that already held a record, made while a
\* file with records was retained
C19_Witness ==
    /\ yret.op = "push"
    /\ Len(buffer) = 2
    /\ buffer[1] # buffer[2]
    /\ Len(files) >= 1
    /\ files[1].len >= 1

\* the bytes YeeterFile::write lays down for one record
RecordBytes(rec) ==
    to_be_bytes(Len(rec[1])) \o to_be_bytes(Len(rec[2])) \o rec[1] \o rec[2]

RECURSIVE BatchBytes(_)
BatchBytes(recs) ==
    IF recs = <<>> THEN <<>> ELSE RecordBytes(Head(recs)) \o BatchBytes(Tail(recs))

\* a call of flush has just returned Ok: only a flush creates a file
FlushOkStep == created' # created /\ yret' = YRet("flush", "ok")

\* C20: a flush that returns Ok leaves the batch empty and the list of retained
\* files one longer; the new last file is a temporary file that did not exist
\* before, its bytes are the records of the batch one after the other in push
\* order, its remaining-count is the number of records the batch held; the
\* files retained before are unchanged, bytes and remaining-counts, and no
\* other temporary file is created or removed.
C20_FlushWritesBatchToNewFile ==
    [][FlushOkStep =>
        /\ buffer' = <<>>
        /\ Len(files') = Len(files) + 1
        /\ LET f == files'[Len(files')] IN
             /\ f.id \notin tempDir
             /\ \A j \in 1..Len(files) : files[j].id # f.id
             /\ tempDir' = tempDir \cup {f.id}
             /\ f.bytes = BatchBytes(buffer)
             /\ f.recs = buffer
             /\ f.len = Len(buffer)
        /\ \A j \in 1..Len(files) : files'[j] = files[j]
        /\ pushed' = pushed
      ]_vars

\* C20 witness: the second successful flush has written a batch of two
\* different records behind a file that holds a record
C20_Witness ==
    /\ yret = YRet("flush", "ok")
    /\ buffer = <<>>
    /\ Len(files) = 2
    /\ files[1].len >= 1
    /\ files[2].len = 2
    /\ files[2].recs[1] # files[2].recs[2]
    /\ files[2].bytes = BatchBytes(files[2].recs)

----------------------------------------------------------------------------
(* Properties of one spill file *)

\* every write made on the file so far has succeeded
AllWritesOk == Len(files[1].recs) = Len(pushed)

\* read_next never hands out a record: after a write the file's position is at
\* the end of the file, and read_next reads from that position
NeverReturnsRecord == yret.kind # "some" /\ files[1].taken = 0

\* C21 (the claim as stated): read_next returns None exactly when the
\* remaining-count is 0, and on a file whose writes all succeeded a call made
\* with a remaining-count above 0 returns a record and lowers the count by one.
C21_ReadNextCountsDown ==
    (yret.op = "read_next" /\ AllWritesOk) =>
        /\ yret.kind = "none" <=> yret.lenBefore = 0
        /\ yret.lenBefore > 0 =>
              /\ yret.kind = "some"
              /\ files[1].len = yret.lenBefore - 1

----------------------------------------------------------------------------
(* Further properties of the spill buffer *)

\* C22 (the claim as stated): the batch is bounded by a batch size: for a
\* batch size below MaxPush, the batch is written out when it becomes full, so
\* it never holds MaxPush records, however many records are pushed.
C22_BatchBounded ==
    Len(buffer) < MaxPush

----------------------------------------------------------------------------
(* Further properties of one spill file *)

\* C23 (the claim as stated): the file of successful writes is the records one
\* after the other, each as its key length and its value length in 8
\* big-endian bytes, then the key, then the value; and read_next on it returns
\* the next written record: a key and a value of the lengths stored in the two
\* prefixes, with the bytes written.
C23_RecordLayoutRoundTrip ==
    AllWritesOk =>
        /\ files[1].bytes = BatchBytes(files[1].recs)
        /\ (yret.op = "read_next" /\ yret.lenBefore > 0) =>
              LET rec == files[1].recs[Len(files[1].recs) - yret.lenBefore + 1] IN
              /\ yret.kind = "some"
              /\ Len(yret.key) = Len(rec[1])
              /\ Len(yret.value) = Len(rec[2])
              /\ <<yret.key, yret.value>> = rec

\* the part of C23 about write: the bytes of a file of successful writes
WrittenLayout == AllWritesOk => files[1].bytes = BatchBytes(files[1].recs)

\* the temporary files of the retained YeeterFiles
RetainedIds == {files[i].id : i \in DOMAIN files}

\* C24: a flush that creates a temporary file creates one that no earlier flush
\* created and that is not on disk, and changes no file retained from earlier
\* flushes; the retained files are distinct temporary files, and they are the
\* only temporary files of the buffer on disk (the file of a failed flush is
\* removed when the flush returns); once the buffer is dropped none of the
\* temporary files it created is left.
C24_FreshFilePerFlushRemovedOnDrop ==
    /\ [][created' # created =>
            /\ yret'.op = "flush"
            /\ created' \notin 1..created
            /\ created' \notin tempDir
            /\ created' \notin RetainedIds
            /\ \A j \in 1..Len(files) : files'[j] = files[j]
            /\ RetainedIds' \subseteq RetainedIds \cup {created'}
         ]_vars
    /\ [](/\ \A i, j \in DOMAIN files : files[i].id = files[j].id => i = j
          /\ RetainedIds \subseteq 1..created
          /\ tempDir = RetainedIds
          /\ dropped => (tempDir = {} /\ files = <<>>))

\* C24 witness: the buffer has been dropped after two flushes had each created
\* a file, and no temporary file is left
C24_Witness ==
    /\ dropped
    /\ yret.op = "drop"
    /\ created = 2
    /\ pushed # <<>>
    /\ tempDir = {}

----------------------------------------------------------------------------
(* Termination of migrate_db *)

\* the stores a call can find: a v0 store with marker 0; the store a step has
\* committed, with the marker not yet removed, removed, or rewritten; a fresh
\* store of the current schema with any marker
LInit ==
    /\ \/ \E es \in SubsetsUpTo(V0Universe, MaxEntries) :
            \/ /\ db = V0Store(es)
               /\ versionFile = VersionFile(<<0>>)
            \/ /\ db = UninterruptedRun(V0Store(es))
               /\ versionFile \in {VersionFile(<<0>>), NoVersionFile,
                                   create_db_version_file(CURRENT_DB_VERSION)}
       \/ /\ db = EmptyV1Store
          /\ versionFile \in OtherVersionFiles
    /\ tx = db
    /\ pc = "idle"
    /\ cursor = 0
    /\ old_entries = NoEntries
    /\ curKey = 0
    /\ curVals = <<>>
    /\ ret = NoRet
    /\ pre = [db |-> db, versionFile |-> versionFile, interrupted |-> FALSE]
    /\ failedAt = ""
    /\ dirty = FALSE
    /\ cursors = {}
    /\ droppedTables = {}
    /\ YIdle

\* the one call of a behaviour
FirstCall == ret = NoRet /\ Call

LNext ==
    \/ FirstCall
    \/ Open
    \/ ScsCursor
    \/ ScsWalk
    \/ ScsDrop
    \/ ScsCreate
    \/ ScsNextKey
    \/ ScsPut
    \/ \E i \in 1..Len(Renames) : CopyCreate(i)
    \/ \E i \in 1..Len(Renames) : CopyCursor(i)
    \/ \E i \in 1..Len(Renames) : CopyWalk(i)
    \/ \E i \in 1..Len(Renames) : DropOld(i)
    \/ Commit
    \/ RemoveVersion
    \/ CreateVersion
    \/ Crash

\* one call on any store it can find; a call that is running and is not stopped
\* executes its next statement
SpecLive == LInit /\ [][LNext]_vars /\ WF_vars(StepNext)

ReturnKinds == {"Ok", "UnsupportedVersion", "DatabaseVersion", "Database", "Other"}

\* C25: a call of migrate_db that is running comes to its end: it returns Ok
\* or one error, or the process has stopped; the statements of the step are
\* passed forwards only, so a walk that has been left is not entered again, a
\* walk is entered before the table's first entry, and every step inside a
\* walk reads the entry after the one read before, up to the table's end.
C25_CallTerminatesWalksOnce ==
    /\ (pc # "idle") ~> (pc = "idle" /\ ret.kind \in ReturnKinds \cup {"crashed"})
    /\ [](pc = "idle" => ret.kind \in ReturnKinds \cup {"none", "crashed"})
    /\ [][/\ (pc \in Range(StepOrder) /\ pc' \in Range(StepOrder)) =>
                Pos(pc') >= Pos(pc)
          /\ \A n \in V0Names :
                /\ (pc' = WalkPc(n) /\ pc # WalkPc(n)) =>
                      (cursor' = 0 /\ Pos(pc) = Pos(WalkPc(n)) - 1)
                /\ (pc = WalkPc(n) /\ pc' = WalkPc(n)) =>
                      (cursor' = cursor + 1 /\ cursor' <= Len(walk(tx, n)))
         ]_vars

\* C25 witness: a call on a store with two entries in one old table has walked
\* all four old tables and returned Ok
C25_Witness ==
    /\ Migrated
    /\ failedAt = ""
    /\ Cardinality(pre.db["StorageChanges"].rows) = 2

----------------------------------------------------------------------------
(* Further properties of the marker *)

\* C26 (the claim as stated): wherever migrate_db stops, a marker that reads 0
\* does not stand beside tables committed in the v1 layout, and the v0->v1
\* step only ever runs on a store whose tables are the v0 tables.
C26_MarkerNamesSchema ==
    /\ (pc = "idle" /\ MarkerReads(versionFile, 0)) => ~IsV1Layout(db)
    /\ pc \in Range(StepOrder) => IsV0Store(pre.db)

----------------------------------------------------------------------------
(* Independence of the map's iteration order *)

\* the new records of address a, in the order old_entries holds its values
\* (the order of the walk, lines 103-107)
NewRecordsOf(d, a) ==
    LET mine == SelectSeq(walk(d, "StorageChangeSet"), LAMBDA r : r[1] = <<a>>)
    IN [j \in 1..Len(mine) |-> <<NewChangeSetKey(a, mine[j][2]),
                                 NewChangeSetVal(mine[j][2])>>]

\* lines 115-121 with the map yielding its keys in the order given
RECURSIVE PutInOrder(_, _, _)
PutInOrder(t, d, order) ==
    IF order = <<>> THEN t
    ELSE PutInOrder(PutAll(t, "StorageChangeSet", NewRecordsOf(d, Head(order))),
                    d, Tail(order))

\* the orders in which a map over the addresses can yield its keys
KeyOrders ==
    {o \in [1..Cardinality(Addresses) -> Addresses] :
        \A i, j \in DOMAIN o : o[i] = o[j] => i = j}

\* the entries of the new StorageChangeSet after the puts made in order o
ChangeSetAfter(d, o) ==
    PutInOrder(create_db(drop_table(d, "StorageChangeSet"), "StorageChangeSet", FALSE),
               d, o)["StorageChangeSet"].rows

\* the step has made the last put of lines 115-121
LastPutMade ==
    OnV0Store /\ pc = "scs_put" /\ curVals = <<>> /\ DOMAIN old_entries = {}

\* C27: on a version-0 store the puts of lines 115-121 leave the same entries
\* in the new StorageChangeSet whatever order the map yields its keys in: the
\* entries are the same for any two orders, and they are the entries a run has
\* in its transaction after its last put and commits when it returns Ok.
C27_MapOrderIrrelevant ==
    OnV0Store =>
        /\ pc = "open" =>
             \A o1, o2 \in KeyOrders :
                ChangeSetAfter(pre.db, o1) = ChangeSetAfter(pre.db, o2)
        /\ LastPutMade =>
             \A o \in KeyOrders :
                tx["StorageChangeSet"].rows = ChangeSetAfter(pre.db, o)
        /\ Returned(Ok) =>
             \A o \in KeyOrders :
                db["StorageChangeSet"].rows = ChangeSetAfter(pre.db, o)

\* C27 witness: a run whose map held two addresses has made its last put, for
\* address 1: it took address 2 before address 1
C27_Witness ==
    /\ LastPutMade
    /\ curKey = 1
    /\ \E r \in pre.db["StorageChangeSet"].rows : r[1] = <<2>>
    /\ \E r \in pre.db["StorageChangeSet"].rows : r[1] = <<1>>

----------------------------------------------------------------------------
(* Records held by the spill buffer *)

\* C28 (the claim as stated): after any pushes and flushes, failed flushes
\* included, the records of the retained files, in flush order, followed by the
\* records of the batch are the records pushed, each once, in push order.
C28_NoRecordLost ==
    ~dropped => AllRecs(files) \o buffer = pushed

----------------------------------------------------------------------------
(* The remaining-count of one spill file *)

\* C29: the remaining-count of a file is the number of writes that succeeded
\* minus the number of records read_next has returned, and is never below 0; a
\* write that succeeds raises it by one; a write or a read_next that fails
\* leaves it as it was, and so does a read_next that returns None, which finds
\* it at 0.
C29_LenCountsWritesMinusReads ==
    LET f == files[1] IN
    /\ f.len = Len(f.recs) - f.taken
    /\ f.len >= 0
    /\ f.taken >= 0
    /\ (yret.op = "write" /\ yret.kind = "ok") => f.len = yret.lenBefore + 1
    /\ yret.kind = "err" => f.len = yret.lenBefore
    /\ (yret.op = "read_next" /\ yret.kind = "none") =>
          (f.len = 0 /\ yret.lenBefore = 0)
    /\ (yret.op = "read_next" /\ yret.kind = "some") => f.len = yret.lenBefore - 1

\* C29 witness: after two writes that succeeded and one that failed, a
\* read_next has failed and the remaining-count is 2
C29_Witness ==
    /\ yret.op = "read_next"
    /\ yret.kind = "err"
    /\ Len(pushed) = 3
    /\ Len(files[1].recs) = 2
    /\ files[1].len = 2
    /\ files[1].bytes # BatchBytes(files[1].recs)

----------------------------------------------------------------------------
(* The marker across calls *)

\* the marker file is present and reads 0 or the current version
ReadsOldOrCurrent(vf) == MarkerReads(vf, 0) \/ MarkerReads(vf, CURRENT_DB_VERSION)

\* the store has been migrated and every call since has been refused
Settled ==
    /\ MarkerReads(versionFile, CURRENT_DB_VERSION)
    /\ Returned(Ok) \/ Returned(UnsupportedVersion(CURRENT_DB_VERSION))

\* C30: over the calls made on one store, a marker that reads the current
\* version is never changed again (so it never goes back to 0), a marker that
\* reads 0 or 1 is followed, while present, by one that reads 0 or 1, and a
\* marker file that is created reads 1; when a call returns Ok the marker
\* reads 1, and from then on every call returns UnsupportedVersion(1) without
\* leaving its first statement, tables and marker unchanged.
C30_MarkerMonotoneThenRefused ==
    /\ [][/\ MarkerReads(versionFile, CURRENT_DB_VERSION) => versionFile' = versionFile
          /\ (ReadsOldOrCurrent(versionFile) /\ versionFile'.exists) =>
                ReadsOldOrCurrent(versionFile')
          /\ (~versionFile.exists /\ versionFile'.exists) =>
                MarkerReads(versionFile', CURRENT_DB_VERSION)
          /\ Settled =>
                /\ pc' = "idle"
                /\ ret' = UnsupportedVersion(CURRENT_DB_VERSION)
                /\ db' = db
                /\ tx' = tx
                /\ versionFile' = versionFile
         ]_vars
    /\ [](Returned(Ok) => Settled)

\* C30 witness: a call made after the call that migrated a store with data has
\* been refused, and tables and marker are those the migration left
C30_Witness ==
    /\ Settled
    /\ Returned(UnsupportedVersion(CURRENT_DB_VERSION))
    /\ db["StorageChangeHistory"].rows # {}
    /\ db["StorageChangeSet"].rows # {}
    /\ db = pre.db
    /\ versionFile = pre.versionFile

----------------------------------------------------------------------------
(* Cursor lifetimes and table drops *)

\* the table the walk at the current position reads its next item from
TableRead ==
    IF pc = "scs_walk" THEN {"StorageChangeSet"}
    ELSE {Renames[i][1] : i \in {j \in DOMAIN Renames : pc = PcWalk[j]}}

\* C31: no cursor is open on a table the step has dropped, so each cursor the
\* step creates on an old table is released before the drop_table call on that
\* table; every read of a table goes through an open cursor on a table that is
\* present in the transaction and has not been dropped; the three copy cursors
\* are all released when the first of the final drops is reached, and when the
\* step commits no cursor is open and the four old tables have been dropped.
C31_NoCursorOpenAtDrop ==
    /\ cursors \cap droppedTables = {}
    /\ \A n \in TableRead :
          /\ n \in cursors
          /\ n \notin droppedTables
          /\ HasTable(tx, n)
    /\ pc \in Range(PcDrop) => cursors = {}
    /\ pc = "commit" => (cursors = {} /\ droppedTables = V0Names)
    /\ pc = "idle" => (cursors = {} /\ droppedTables = {})

\* C31 witness: the step has walked old tables that hold entries, all three
\* copy cursors have been released, and the second of the final drops is next
C31_Witness ==
    /\ pc = PcDrop[2]
    /\ cursors = {}
    /\ droppedTables = {"StorageChangeSet", "NonceChanges"}
    /\ pre.db["NonceChanges"].rows # {}
    /\ pre.db["StorageChangeSet"].rows # {}

====
